---- MODULE Spec2Model ----
(***************************************************************************)
(* A model of the PN532 driver base class (src/pn532/pn532.py): the frame  *)
(* codec (_write_frame / _read_frame), the error table (PN532_ERRORS /     *)
(* PN532Error), the command dispatcher (call_function), the device         *)
(* commands built on it and the constructor's wake / firmware handshake.   *)
(*                                                                         *)
(* Bytes are integers 0..255.  Python sequences are TLA+ sequences; the    *)
(* code's 0-based indices are kept and translated by At and Slice.         *)
(* Python exceptions are outcome records whose kind is the exception       *)
(* class: an index past the end of a bytes object is "IndexError", a       *)
(* subscript of None is "TypeError", a missing dictionary key is           *)
(* "KeyError", a failed assert is "AssertionError".                        *)
(***************************************************************************)
EXTENDS Integers, Sequences, FiniteSets, TLC

VARIABLES
    \* ---- the session and the call in flight
    session,    \* "none" | "ready" | "failed": whether a PN532 object exists
    pc,         \* position inside the public operation in flight
    op,         \* the public operation in flight (or the last one): name and arguments
    attempt,    \* which get_firmware_version call of __init__ is running (0: not in __init__)
    cmd,        \* arguments of the call_function in flight
    ops,        \* transport operations performed by the public operation, in order
    ack,        \* the bytes _read_data(len(_ACK)) returned in the current call_function
    rx,         \* the bytes _read_data(length+7) returned in the current call_function
    disp,       \* what the last call_function returned or raised
    boot,       \* what each get_firmware_version call of __init__ returned or raised (empty in other operations)
    outcome,    \* what the public operation returned or raised
    \* ---- the codec on its own
    cpc,        \* "input" | "encoded" | "rejected" | "decoded"
    payload,    \* the data handed to _write_frame
    frame,      \* the bytes _write_frame handed to _write_data
    edit,       \* what was done to the frame before it was read back
    buf,        \* the bytes the transport holds for _read_data
    decoded,    \* what _read_frame returned or raised
    \* ---- the error table on its own
    status,     \* the status byte handed to PN532Error
    classified  \* what raise PN532Error(status) ended in

sessionVars == <<session, pc, op, attempt, cmd, ops, ack, rx, disp, boot, outcome>>
codecVars == <<cpc, payload, frame, edit, buf, decoded>>
errorVars == <<status, classified>>
vars == <<session, pc, op, attempt, cmd, ops, ack, rx, disp, boot, outcome,
          cpc, payload, frame, edit, buf, decoded, status, classified>>

(***************************************************************************)
(* Bounds of the model.                                                    *)
(***************************************************************************)
\* Longest payload handed to the codec on its own.
MaxLen == 3
\* Most zero bytes a transport puts before the 0xFF start marker.
MaxPad == 3

(***************************************************************************)
(* Program constants.                                                      *)
(***************************************************************************)
PREAMBLE == 0
STARTCODE1 == 0
STARTCODE2 == 255
POSTAMBLE == 0
HOSTTOPN532 == 212
PN532TOHOST == 213
COMMAND_GETFIRMWAREVERSION == 2
COMMAND_SAMCONFIGURATION == 20
COMMAND_INLISTPASSIVETARGET == 74
COMMAND_INDATAEXCHANGE == 64
MIFARE_ISO14443A == 0
MIFARE_CMD_AUTH_A == 96
MIFARE_CMD_AUTH_B == 97
MIFARE_CMD_READ == 48
MIFARE_CMD_WRITE == 160
ACK == <<0, 0, 255, 0, 255, 0>>

\* The keys of the PN532_ERRORS dictionary.
PN532_ERRORS ==
    {1, 2, 3, 4, 5, 6, 7, 9, 10, 11, 13, 14, 16, 18, 19, 20, 24, 25,
     35, 37, 38, 39, 41, 42, 43, 44, 45, 46}

Byte == 0..255

(***************************************************************************)
(* Python's sequence operations.                                           *)
(***************************************************************************)
Min(a, b) == IF a < b THEN a ELSE b

\* s[i] for a valid 0-based index i.
At(s, i) == s[i + 1]

\* s[a:b] for 0 <= a: the elements at 0-based indices a..b-1 that exist.
Slice(s, a, b) == SubSeq(s, a + 1, Min(b, Len(s)))

\* s[a:]
SliceFrom(s, a) == SubSeq(s, a + 1, Len(s))

RECURSIVE Sum(_)
Sum(s) == IF s = <<>> THEN 0 ELSE s[1] + Sum(Tail(s))

\* x & 0xFF of a Python integer of either sign.
And255(x) == x % 256

\* ~x of a Python integer.
Invert(x) == -x - 1

\* s with the byte at 0-based index i replaced by v.
Replace(s, i, v) == [s EXCEPT ![i + 1] = v]

\* n zero bytes.
Zeros(n) == [i \in 1..n |-> 0]

(***************************************************************************)
(* Outcomes: what a function returned or raised.                           *)
(***************************************************************************)
Out(kind, val, err, msg) == [kind |-> kind, val |-> val, err |-> err, msg |-> msg]
\* No edit of a frame.
NoEdit == [kind |-> "none", pos |-> 0, val |-> 0]
Nil == Out("nil", <<>>, 0, "")
Returned(kind, val) == Out(kind, val, 0, "")
Raised(kind, msg) == Out(kind, <<>>, 0, msg)

(***************************************************************************)
(* The messages of the RuntimeErrors the driver raises.                    *)
(***************************************************************************)
MSG_PREAMBLE == "Response frame preamble does not contain 0x00FF!"
MSG_NODATA == "Response contains no data!"
MSG_LENCHECK == "Response length checksum did not match length!"
MSG_CHECKSUM == "Response checksum did not match expected value: "
MSG_ACK == "Did not receive expected ACK from PN532!"
MSG_COMMAND == "Received unexpected command response!"
MSG_DETECT == "Failed to detect the PN532"
MSG_CARDS == "More than one card detected!"
MSG_UID == "Found card with unexpectedly long UID!"

(***************************************************************************)
(* The transport.  _read_data(count) returns the bytes the transport       *)
(* holds, at most count of them; fewer may arrive.                         *)
(***************************************************************************)
read_data(count, avail) == SubSeq(avail, 1, Min(count, Len(avail)))

(***************************************************************************)
(* _write_frame: the frame built around data, or the failed assert.        *)
(***************************************************************************)
\* The assert of _write_frame.
LengthAccepted(data) == 1 < Len(data) /\ Len(data) < 255

\* frame[4], the length checksum.
LengthChecksum(length) == And255(Invert(length) + 1)

DataChecksum_NoInvert(data) == And255(Sum(<<PREAMBLE, STARTCODE1, STARTCODE2>>) + Sum(data))
\* frame[-2]: checksum = sum(frame[0:3]) + sum(data); ~checksum & 0xFF.
DataChecksum(data) ==
    And255(Invert(Sum(<<PREAMBLE, STARTCODE1, STARTCODE2>>) + Sum(data)))

\* The bytearray _write_frame fills and hands to _write_data.
FrameOf(data) ==
    <<PREAMBLE, STARTCODE1, STARTCODE2, And255(Len(data)), LengthChecksum(Len(data))>>
        \o data \o <<DataChecksum(data), POSTAMBLE>>

write_frame(data) ==
    IF LengthAccepted(data)
    THEN Returned("written", FrameOf(data))
    ELSE Raised("AssertionError", "Data must be array of 1 to 255 bytes.")

(***************************************************************************)
(* _read_frame(length): reads length+7 bytes and parses them.              *)
(***************************************************************************)
\* The while loop: the first offset >= from holding a non-zero byte, or
\* Len(response) when only zero bytes follow.
RECURSIVE SkipZeros(_, _)
SkipZeros(response, from) ==
    IF from >= Len(response) THEN Len(response)
    ELSE IF At(response, from) # 0 THEN from
    ELSE SkipZeros(response, from + 1)

LengthChecksumOk_Always(frame_len, lcs) == TRUE
\* (frame_len + response[offset+1]) & 0xFF == 0
LengthChecksumOk(frame_len, lcs) == And255(frame_len + lcs) = 0

\* sum(response[offset+2:offset+2+frame_len+1]) & 0xFF
FrameChecksum(response, offset, frame_len) ==
    And255(Sum(Slice(response, offset + 2, offset + 2 + frame_len + 1)))

\* The parse of the bytes read.
ParseFrame(response) ==
    IF Len(response) = 0 THEN Raised("IndexError", "")
    ELSE LET z == SkipZeros(response, 0) IN
    IF z >= Len(response) THEN Raised("RuntimeError", MSG_PREAMBLE)
    ELSE IF At(response, z) # 255 THEN Raised("RuntimeError", MSG_PREAMBLE)
    ELSE LET offset == z + 1 IN
    IF offset >= Len(response) THEN Raised("RuntimeError", MSG_NODATA)
    ELSE LET frame_len == At(response, offset) IN
    IF offset + 1 >= Len(response) THEN Raised("IndexError", "")
    ELSE IF ~LengthChecksumOk(frame_len, At(response, offset + 1))
         THEN Raised("RuntimeError", MSG_LENCHECK)
    ELSE IF FrameChecksum(response, offset, frame_len) # 0
         THEN Raised("RuntimeError", MSG_CHECKSUM)
    ELSE Returned("data", Slice(response, offset + 2, offset + 2 + frame_len))

read_frame(length, avail) == ParseFrame(read_data(length + 7, avail))

(***************************************************************************)
(* The error table: PN532Error(err) looks err up in PN532_ERRORS.          *)
(***************************************************************************)
\* raise PN532Error(err): the exception the raise statement ends in.
PN532Error(err) ==
    IF err \in PN532_ERRORS
    THEN Out("PN532Error", <<>>, err, "")
    ELSE Out("KeyError", <<>>, err, "")

(***************************************************************************)
(* call_function, step by step.  Every step between two transport          *)
(* operations is one action; the step that ends the call also runs the     *)
(* rest of the public operation that made it.                              *)
(***************************************************************************)
\* The marker of bytes not read in the current call_function.
NotRead == <<-1>>

\* Timeouts, in tenths of a second.
TIMEOUT_DEFAULT == 10
TIMEOUT_FIRMWARE == 5

\* An entry of the log of transport operations.
Op(t, n) == [t |-> t, n |-> n]

\* data[0] = _HOSTTOPN532, data[1] = command & 0xFF, then the parameters.
CallData(command, params) == <<HOSTTOPN532, And255(command)>> \o params

AckMatches_Prefix(candidate) == SubSeq(candidate, 1, Min(3, Len(candidate))) = SubSeq(ACK, 1, 3)
\* _ACK == self._read_data(len(_ACK))
AckMatches(candidate) == candidate = ACK

HeaderMatches_MarkerOnly(response, command) == At(response, 0) = PN532TOHOST
\* response[0] == _PN532TOHOST and response[1] == (command+1), for a response
\* of at least two bytes.
HeaderMatches(response, command) ==
    At(response, 0) = PN532TOHOST /\ At(response, 1) = command + 1

\* The end of call_function: the header check on what _read_frame returned.
CheckResponse(parsed, command) ==
    IF parsed.kind # "data" THEN parsed
    ELSE LET response == parsed.val IN
    IF Len(response) = 0 THEN Raised("IndexError", "")
    ELSE IF At(response, 0) # PN532TOHOST THEN Raised("RuntimeError", MSG_COMMAND)
    ELSE IF Len(response) = 1 THEN Raised("IndexError", "")
    ELSE IF ~HeaderMatches(response, command) THEN Raised("RuntimeError", MSG_COMMAND)
    ELSE Returned("result", SliceFrom(response, 2))

(***************************************************************************)
(* The device commands: what each makes of what call_function returned or  *)
(* raised (d).  An exception of call_function propagates unchanged.        *)
(***************************************************************************)
Propagates(d) == d.kind \notin {"result", "None"}

get_firmware_version(d) ==
    IF Propagates(d) THEN d
    ELSE IF d.kind = "None" THEN Raised("RuntimeError", MSG_DETECT)
    ELSE Returned("tuple", d.val)

SAM_configuration(d) ==
    IF Propagates(d) THEN d ELSE Returned("None", <<>>)

OneCard_AtMost(response) == At(response, 0) <= 1
\* response[0] == 0x01
OneCard(response) == At(response, 0) = 1

UidLengthOk_Eight(response) == At(response, 5) <= 8
\* not response[5] > 7
UidLengthOk(response) == ~(At(response, 5) > 7)

read_passive_target(d) ==
    IF Propagates(d) THEN d
    ELSE IF d.kind = "None" THEN Returned("None", <<>>)
    ELSE LET response == d.val IN
    IF Len(response) = 0 THEN Raised("IndexError", "")
    ELSE IF ~OneCard(response) THEN Raised("RuntimeError", MSG_CARDS)
    ELSE IF Len(response) < 6 THEN Raised("IndexError", "")
    ELSE IF ~UidLengthOk(response) THEN Raised("RuntimeError", MSG_UID)
    ELSE Returned("uid", Slice(response, 6, 6 + At(response, 5)))

\* if response[0]: raise PN532Error(response[0]), shared by the three
\* MIFARE operations; Nil when the status byte is zero.
StatusCheck(d) ==
    IF Propagates(d) THEN d
    ELSE IF d.kind = "None" THEN Raised("TypeError", "")
    ELSE IF Len(d.val) = 0 THEN Raised("IndexError", "")
    ELSE IF At(d.val, 0) # 0 THEN PN532Error(At(d.val, 0))
    ELSE Nil

mifare_classic_authenticate_block(d) ==
    IF StatusCheck(d) # Nil THEN StatusCheck(d) ELSE Returned("True", <<>>)

\* return response[1:]
ReadResult(response) == SliceFrom(response, 1)

mifare_classic_read_block(d) ==
    IF StatusCheck(d) # Nil THEN StatusCheck(d) ELSE Returned("block", ReadResult(d.val))

mifare_classic_write_block(d) ==
    IF StatusCheck(d) # Nil THEN StatusCheck(d) ELSE Returned("True", <<>>)

\* The public operation's result from the dispatcher's.
CommandResult(name, d) ==
    CASE name \in {"construct", "get_firmware_version"} -> get_firmware_version(d)
      [] name = "SAM_configuration" -> SAM_configuration(d)
      [] name = "read_passive_target" -> read_passive_target(d)
      [] name = "authenticate" -> mifare_classic_authenticate_block(d)
      [] name = "read_block" -> mifare_classic_read_block(d)
      [] name = "write_block" -> mifare_classic_write_block(d)
      [] name = "call_function" -> d

Swallowed_BusyOnly(kind) == kind \in {"BusyError"}
\* except (BusyError, RuntimeError): pass.  BusyError is raised by no code
\* of this module (only a transport subclass could raise it).
Swallowed(kind) == kind \in {"BusyError", "RuntimeError"}

(***************************************************************************)
(* The environment: what the transport may hold when the driver reads.     *)
(***************************************************************************)
\* b with bit k flipped.
FlipBit(b, k) ==
    IF (b \div (2 ^ k)) % 2 = 1 THEN b - 2 ^ k ELSE b + 2 ^ k

\* What _read_data(len(_ACK)) may find: the ACK, the ACK followed by more
\* bytes, every single-bit flip of it, and every shorter prefix of it.
AckCandidates ==
    {ACK, ACK \o <<0>>}
        \cup {Replace(ACK, i, FlipBit(At(ACK, i), k)) : i \in 0..5, k \in 0..7}
        \cup {SubSeq(ACK, 1, n) : n \in 0..5}

\* A frame as the chip sends it: pad zero bytes, the start marker, the
\* length and its checksum, the payload, its checksum and the postamble.
DeviceFrame(pad, data) ==
    Zeros(pad) \o <<255, Len(data) % 256, (256 - (Len(data) % 256)) % 256>>
        \o data \o <<(256 - (Sum(data) % 256)) % 256, 0>>

\* Status bytes a card exchange may answer with: success, codes of the
\* table (first, MIFARE_AUTH, last) and codes outside it.
StatusSamples == {0, 1, 20, 46, 8, 47, 255}

\* The 16 bytes of a block, 01..10 hex.
BlockData == [i \in 1..16 |-> i]
UidBytes == <<229, 1, 84, 35, 147, 8, 4, 0>>

\* Answers to InListPassiveTarget: the number of targets, the target
\* number, SENS_RES, SEL_RES, the UID length and as many UID bytes as arrive.
TargetBodies ==
    {<<n, 1, 0, 4, 8, declared>> \o SubSeq(UidBytes, 1, present) :
        n \in {0, 1, 2}, declared \in {0, 3, 4, 7, 8}, present \in {0, 2, 4, 7, 8}}
        \cup {<<>>, <<1>>, <<2>>, <<1, 1, 0, 4, 8>>}

\* What follows the two header bytes in the chip's answer to an operation.
DeviceBodies(name) ==
    CASE name \in {"construct", "get_firmware_version"} -> {<<50, 1, 6, 7>>, <<50>>}
      [] name = "SAM_configuration" -> {<<>>}
      [] name = "read_passive_target" -> TargetBodies
      [] name \in {"authenticate", "write_block"} ->
            {<<st>> : st \in StatusSamples} \cup {<<>>}
      [] name = "read_block" ->
            {<<st>> \o BlockData : st \in StatusSamples}
                \cup {<<st>> : st \in StatusSamples}
                \cup {<<0, 1, 2>>, <<0>> \o BlockData \o <<17>>, <<>>}
      [] name = "call_function" -> {<<>>, <<7>>, <<7, 8, 9>>}

\* A card exchange answered with each status byte there is.
StatusBodies(name) ==
    IF name \in {"authenticate", "write_block", "read_block"}
    THEN {<<st>> : st \in Byte}
    ELSE {}

\* The payloads the chip may send: the answer to the command, an answer to
\* another command, an answer with the host's marker, and payloads too
\* short to hold a header.
DevicePayloads(name, command) ==
    {<<PN532TOHOST, (command + 1) % 256>> \o b : b \in DeviceBodies(name)}
        \cup {<<PN532TOHOST, command>>, <<HOSTTOPN532, (command + 1) % 256>>,
              <<PN532TOHOST>>, <<HOSTTOPN532>>, <<>>}

\* The ways a frame is damaged on the way: cut short, or one byte replaced.
Damaged(f) ==
    {SubSeq(f, 1, n) : n \in 0..(Len(f) - 1)}
        \cup UNION {{Replace(f, i, v) : v \in {0, 255, (At(f, i) + 1) % 256}} :
                        i \in 0..(Len(f) - 1)}

\* What _read_data(length+7) may find after a command: every frame of the
\* chip behind 0..MaxPad zero bytes, the damaged forms of the plain answer,
\* an answer with each status byte, and runs of zero bytes.
RxBuffers(name, command) ==
    {DeviceFrame(pad, data) : pad \in 0..MaxPad, data \in DevicePayloads(name, command)}
        \cup UNION {Damaged(DeviceFrame(1, <<PN532TOHOST, (command + 1) % 256>> \o b)) :
                        b \in DeviceBodies(name)}
        \cup {DeviceFrame(1, <<PN532TOHOST, (command + 1) % 256>> \o b) :
                        b \in StatusBodies(name)}
        \cup {Zeros(n) : n \in 0..MaxPad}

(***************************************************************************)
(* The public operations and the steps of the call each makes.             *)
(***************************************************************************)
NoArgs == [reset |-> 0, block_number |-> 0, key_number |-> 0, uid |-> <<>>,
           key |-> <<>>, data |-> <<>>]
Operation(name, args) == [name |-> name, args |-> args]

Call(command, response_length, params, timeout) ==
    [command |-> command, response_length |-> response_length,
     params |-> params, timeout |-> timeout, base |-> 0]

\* No operation is in flight.
AtRest == pc \in {"idle", "done"}

\* Entering call_function from a public operation; base is the number of
\* transport operations the public operation performed before the call.
Enter(o, c, log) ==
    /\ op' = o
    /\ cmd' = [c EXCEPT !.base = Len(log)]
    /\ ops' = log
    /\ pc' = "write"
    /\ ack' = NotRead
    /\ rx' = NotRead
    /\ disp' = Nil
    /\ outcome' = Nil

\* call_function returned or raised d after the transport operations log:
\* the rest of the public operation.  In __init__ a swallowed failure of
\* the first get_firmware_version is followed by the second.
Finish(d, log) ==
    LET r == CommandResult(op.name, d) IN
    /\ disp' = d
    /\ ops' = log
    /\ UNCHANGED op
    /\ IF op.name = "construct"
       THEN /\ boot' = Append(boot, r)
            /\ IF r.kind = "tuple"
               THEN /\ session' = "ready"
                    /\ outcome' = Returned("constructed", <<>>)
                    /\ pc' = "done"
                    /\ attempt' = 0
                    /\ UNCHANGED cmd
               ELSE IF attempt = 1 /\ Swallowed(r.kind)
               THEN /\ attempt' = 2
                    /\ pc' = "write"
                    /\ cmd' = [cmd EXCEPT !.base = Len(log)]
                    /\ UNCHANGED <<session, outcome>>
               ELSE /\ session' = "failed"
                    /\ outcome' = r
                    /\ pc' = "done"
                    /\ attempt' = 0
                    /\ UNCHANGED cmd
       ELSE /\ outcome' = r
            /\ pc' = "done"
            /\ UNCHANGED <<session, attempt, boot, cmd>>

BootLog_AlwaysReset(reset) == <<Op("reset", reset), Op("wake", 0)>>
\* if reset: self._reset(reset), then self._wakeup().
BootLog(reset) ==
    (IF reset # 0 THEN <<Op("reset", reset)>> ELSE <<>>) \o <<Op("wake", 0)>>

\* PN532(reset=pin): _reset(pin) when a pin is given, _wakeup(), then the
\* first get_firmware_version().
Construct ==
    /\ AtRest
    /\ session # "ready"
    /\ \E reset \in {0, 20} :
        Enter(Operation("construct", [NoArgs EXCEPT !.reset = reset]),
              Call(COMMAND_GETFIRMWAREVERSION, 4, <<>>, TIMEOUT_FIRMWARE),
              BootLog(reset))
    /\ session' = "none"
    /\ attempt' = 1
    /\ boot' = <<>>
    /\ UNCHANGED <<codecVars, errorVars>>

\* Command bytes call_function is called with directly: the smallest, two
\* the driver uses, the middle ones and the largest two.
CommandSamples == {0, COMMAND_GETFIRMWAREVERSION, COMMAND_INDATAEXCHANGE, 127, 128, 254, 255}

\* call_function called directly.
CallFunction ==
    /\ AtRest
    /\ session = "ready"
    /\ \E command \in CommandSamples, response_length \in {0, 3}, params \in {<<>>, <<1>>} :
        Enter(Operation("call_function", NoArgs),
              Call(command, response_length, params, TIMEOUT_DEFAULT), <<>>)
    /\ boot' = <<>>
    /\ UNCHANGED <<session, attempt, codecVars, errorVars>>

GetFirmwareVersion ==
    /\ AtRest
    /\ session = "ready"
    /\ Enter(Operation("get_firmware_version", NoArgs),
             Call(COMMAND_GETFIRMWAREVERSION, 4, <<>>, TIMEOUT_FIRMWARE), <<>>)
    /\ boot' = <<>>
    /\ UNCHANGED <<session, attempt, codecVars, errorVars>>

SAMConfiguration ==
    /\ AtRest
    /\ session = "ready"
    /\ Enter(Operation("SAM_configuration", NoArgs),
             Call(COMMAND_SAMCONFIGURATION, 0, <<1, 20, 1>>, TIMEOUT_DEFAULT), <<>>)
    /\ boot' = <<>>
    /\ UNCHANGED <<session, attempt, codecVars, errorVars>>

ReadPassiveTarget ==
    /\ AtRest
    /\ session = "ready"
    /\ \E timeout \in {TIMEOUT_FIRMWARE, TIMEOUT_DEFAULT} :
        Enter(Operation("read_passive_target", NoArgs),
              Call(COMMAND_INLISTPASSIVETARGET, 19, <<1, MIFARE_ISO14443A>>, timeout), <<>>)
    /\ boot' = <<>>
    /\ UNCHANGED <<session, attempt, codecVars, errorVars>>

\* Keys and UIDs handed to the MIFARE operations.
Keys == {<<255, 255, 255, 255, 255, 255>>}
Uids == {SubSeq(UidBytes, 1, 4), SubSeq(UidBytes, 1, 7)}
BlockNumbers == {0, 7}

Authenticate ==
    /\ AtRest
    /\ session = "ready"
    /\ \E uid \in Uids, block_number \in BlockNumbers,
          key_number \in {MIFARE_CMD_AUTH_A, MIFARE_CMD_AUTH_B}, key \in Keys :
        Enter(Operation("authenticate",
                        [NoArgs EXCEPT !.uid = uid, !.block_number = block_number,
                                       !.key_number = key_number, !.key = key]),
              Call(COMMAND_INDATAEXCHANGE, 1,
                   <<1, And255(key_number), And255(block_number)>> \o key \o uid,
                   TIMEOUT_DEFAULT),
              <<>>)
    /\ boot' = <<>>
    /\ UNCHANGED <<session, attempt, codecVars, errorVars>>

ReadBlock ==
    /\ AtRest
    /\ session = "ready"
    /\ \E block_number \in BlockNumbers :
        Enter(Operation("read_block", [NoArgs EXCEPT !.block_number = block_number]),
              Call(COMMAND_INDATAEXCHANGE, 17,
                   <<1, MIFARE_CMD_READ, And255(block_number)>>, TIMEOUT_DEFAULT),
              <<>>)
    /\ boot' = <<>>
    /\ UNCHANGED <<session, attempt, codecVars, errorVars>>

\* Buffers handed to mifare_classic_write_block: 16 bytes, 15 and 17, and none.
WriteBuffers == {BlockData, SubSeq(BlockData, 1, 15), BlockData \o <<17>>, <<>>}

DataAccepted_AtLeast(data) == Len(data) >= 16
\* assert data is not None and len(data) == 16
DataAccepted(data) == Len(data) = 16

WriteBlock ==
    /\ AtRest
    /\ session = "ready"
    /\ \E block_number \in BlockNumbers, data \in WriteBuffers :
        LET o == Operation("write_block",
                           [NoArgs EXCEPT !.block_number = block_number, !.data = data])
        IN IF DataAccepted(data)
           THEN Enter(o, Call(COMMAND_INDATAEXCHANGE, 1,
                              <<1, MIFARE_CMD_WRITE, And255(block_number)>> \o data,
                              TIMEOUT_DEFAULT),
                      <<>>)
           ELSE /\ op' = o
                /\ outcome' = Raised("AssertionError", "Data must be an array of 16 bytes!")
                /\ pc' = "done"
                /\ ops' = <<>>
                /\ ack' = NotRead
                /\ rx' = NotRead
                /\ disp' = Nil
                /\ UNCHANGED cmd
    /\ boot' = <<>>
    /\ UNCHANGED <<session, attempt, codecVars, errorVars>>

Poll_Default(timeout) == Op("wait_ready", TIMEOUT_DEFAULT)
\* self._wait_ready(timeout)
Poll(timeout) == Op("wait_ready", timeout)

Recovery_NoWake(n) == <<Op("write_error", n)>>
\* except OSError: self._wakeup(), after the failed write of n bytes.
Recovery(n) == <<Op("write_error", n), Op("wake", 0)>>

\* self._write_frame(data); an OSError of the transport is answered by
\* _wakeup() and None.
WriteFrame ==
    /\ UNCHANGED <<codecVars, errorVars>>
    /\ pc = "write"
    /\ LET w == write_frame(CallData(cmd.command, cmd.params)) IN
       IF w.kind # "written"
       THEN /\ Finish(w, ops)
            /\ ack' = NotRead
            /\ rx' = NotRead
       ELSE \E ok \in BOOLEAN :
            /\ ack' = NotRead
            /\ rx' = NotRead
            /\ IF ok
               THEN /\ ops' = Append(ops, Op("write", Len(w.val)))
                    /\ pc' = "wait_ack"
                    /\ UNCHANGED <<session, op, attempt, cmd, disp, boot, outcome>>
               ELSE Finish(Returned("None", <<>>),
                           ops \o Recovery(Len(w.val)))

\* if not self._wait_ready(timeout): return None
WaitAck ==
    /\ UNCHANGED <<codecVars, errorVars>>
    /\ pc = "wait_ack"
    /\ UNCHANGED <<ack, rx>>
    /\ \E ready \in BOOLEAN :
        IF ready
        THEN /\ ops' = Append(ops, Poll(cmd.timeout))
             /\ pc' = "read_ack"
             /\ UNCHANGED <<session, op, attempt, cmd, disp, boot, outcome>>
        ELSE Finish(Returned("None", <<>>), Append(ops, Poll(cmd.timeout)))

\* if not _ACK == self._read_data(len(_ACK)): raise RuntimeError
ReadAck ==
    /\ UNCHANGED <<codecVars, errorVars>>
    /\ pc = "read_ack"
    /\ UNCHANGED rx
    /\ \E avail \in AckCandidates :
        LET candidate == read_data(Len(ACK), avail) IN
        /\ ack' = candidate
        /\ IF AckMatches(candidate)
           THEN /\ ops' = Append(ops, Op("read", Len(ACK)))
                /\ pc' = "wait_result"
                /\ UNCHANGED <<session, op, attempt, cmd, disp, boot, outcome>>
           ELSE Finish(Raised("RuntimeError", MSG_ACK), Append(ops, Op("read", Len(ACK))))

WaitResult_NoPoll ==
    /\ UNCHANGED <<codecVars, errorVars>>
    /\ pc = "wait_result"
    /\ UNCHANGED <<ack, rx>>
    /\ pc' = "read_result"
    /\ UNCHANGED <<session, op, attempt, cmd, disp, boot, outcome, ops>>
\* if not self._wait_ready(timeout): return None
WaitResult ==
    /\ UNCHANGED <<codecVars, errorVars>>
    /\ pc = "wait_result"
    /\ UNCHANGED <<ack, rx>>
    /\ \E ready \in BOOLEAN :
        IF ready
        THEN /\ ops' = Append(ops, Poll(cmd.timeout))
             /\ pc' = "read_result"
             /\ UNCHANGED <<session, op, attempt, cmd, disp, boot, outcome>>
        ELSE Finish(Returned("None", <<>>), Append(ops, Poll(cmd.timeout)))

\* response = self._read_frame(response_length+2), the header check, and
\* the return of response[2:].
ReadResponse ==
    /\ UNCHANGED <<codecVars, errorVars>>
    /\ pc = "read_result"
    /\ UNCHANGED ack
    /\ \E avail \in RxBuffers(op.name, cmd.command) :
        LET response == read_data(cmd.response_length + 2 + 7, avail) IN
        /\ rx' = response
        /\ Finish(CheckResponse(read_frame(cmd.response_length + 2, avail), cmd.command),
                  Append(ops, Op("read", cmd.response_length + 2 + 7)))

Init ==
    /\ session = "none"
    /\ pc = "idle"
    /\ op = Operation("none", NoArgs)
    /\ attempt = 0
    /\ cmd = Call(0, 0, <<>>, 0)
    /\ ops = <<>>
    /\ ack = NotRead
    /\ rx = NotRead
    /\ disp = Nil
    /\ boot = <<>>
    /\ outcome = Nil
    /\ cpc = "input"
    /\ payload = <<>>
    /\ frame = <<>>
    /\ edit = NoEdit
    /\ buf = <<>>
    /\ decoded = Nil
    /\ status = 0
    /\ classified = Nil

Next ==
    \/ Construct
    \/ CallFunction
    \/ GetFirmwareVersion
    \/ SAMConfiguration
    \/ ReadPassiveTarget
    \/ Authenticate
    \/ ReadBlock
    \/ WriteBlock
    \/ WriteFrame
    \/ WaitAck
    \/ ReadAck
    \/ WaitResult
    \/ ReadResponse

(***************************************************************************)
(* The codec on its own: a payload is encoded, the frame is handed back    *)
(* as it is or with one byte replaced, and decoded with the payload's      *)
(* length as the expected length.                                          *)
(***************************************************************************)
\* Byte values the payloads are drawn from.
CodecBytes == {0, 1, PN532TOHOST, 255}

RECURSIVE SeqsOf(_, _)
\* The sequences of exactly n elements of S.
SeqsOf(S, n) ==
    IF n = 0 THEN {<<>>}
    ELSE {<<x>> \o s : x \in S, s \in SeqsOf(S, n - 1)}

CodecPayloads == UNION {SeqsOf(CodecBytes, n) : n \in 0..MaxLen}


CodecInit ==
    /\ session = "none"
    /\ pc = "idle"
    /\ op = Operation("none", NoArgs)
    /\ attempt = 0
    /\ cmd = Call(0, 0, <<>>, 0)
    /\ ops = <<>>
    /\ ack = NotRead
    /\ rx = NotRead
    /\ disp = Nil
    /\ boot = <<>>
    /\ outcome = Nil
    /\ cpc = "input"
    /\ payload \in CodecPayloads
    /\ frame = <<>>
    /\ edit = NoEdit
    /\ buf = <<>>
    /\ decoded = Nil
    /\ status = 0
    /\ classified = Nil

\* _write_frame(payload)
Encode ==
    /\ cpc = "input"
    /\ LET w == write_frame(payload) IN
        /\ cpc' = IF w.kind = "written" THEN "encoded" ELSE "rejected"
        /\ frame' = w.val
    /\ UNCHANGED <<payload, edit, buf, decoded>>
    /\ UNCHANGED <<sessionVars, errorVars>>

\* The frame comes back unchanged: _read_frame(len(payload)).
Loopback ==
    /\ cpc = "encoded"
    /\ cpc' = "decoded"
    /\ edit' = NoEdit
    /\ buf' = frame
    /\ decoded' = read_frame(Len(payload), frame)
    /\ UNCHANGED <<payload, frame>>
    /\ UNCHANGED <<sessionVars, errorVars>>

\* The frame comes back with the byte at pos replaced by another value.
ReplaceByte ==
    /\ cpc = "encoded"
    /\ \E pos \in 0..(Len(frame) - 1), val \in Byte :
        /\ val # At(frame, pos)
        /\ cpc' = "decoded"
        /\ edit' = [kind |-> "replace", pos |-> pos, val |-> val]
        /\ buf' = Replace(frame, pos, val)
        /\ decoded' = read_frame(Len(payload), Replace(frame, pos, val))
    /\ UNCHANGED <<payload, frame>>
    /\ UNCHANGED <<sessionVars, errorVars>>

\* The frame comes back behind n zero bytes instead of its own two, and
\* _read_frame(length) reads length+7 of them: length is len(payload), or
\* large enough for the longer preamble.
Pad ==
    /\ cpc = "encoded"
    /\ \E n \in 1..(MaxPad + 2), length \in {Len(payload), Len(payload) + MaxPad} :
        /\ cpc' = "decoded"
        /\ edit' = [kind |-> "pad", pos |-> n, val |-> length]
        /\ buf' = read_data(length + 7, Zeros(n) \o SliceFrom(frame, 2))
        /\ decoded' = read_frame(length, Zeros(n) \o SliceFrom(frame, 2))
    /\ UNCHANGED <<payload, frame>>
    /\ UNCHANGED <<sessionVars, errorVars>>

\* The transport delivers only the first k bytes of the frame:
\* _read_data returns fewer bytes than _read_frame asked for.
Truncate ==
    /\ cpc = "encoded"
    /\ \E k \in 0..(Len(frame) - 1) :
        /\ cpc' = "decoded"
        /\ edit' = [kind |-> "truncate", pos |-> k, val |-> 0]
        /\ buf' = read_data(Len(payload) + 7, SubSeq(frame, 1, k))
        /\ decoded' = read_frame(Len(payload), SubSeq(frame, 1, k))
    /\ UNCHANGED <<payload, frame>>
    /\ UNCHANGED <<sessionVars, errorVars>>

\* The transport delivers the bytes of payload as they are, no frame built
\* around them: _read_frame(MaxLen) parses an arbitrary buffer.
ReadRaw ==
    /\ cpc = "input"
    /\ cpc' = "decoded"
    /\ edit' = [kind |-> "raw", pos |-> 0, val |-> 0]
    /\ buf' = read_data(MaxLen + 7, payload)
    /\ decoded' = read_frame(MaxLen, payload)
    /\ UNCHANGED <<payload, frame>>
    /\ UNCHANGED <<sessionVars, errorVars>>

CodecNext ==
    \/ Encode
    \/ Loopback
    \/ ReplaceByte
    \/ Pad
    \/ Truncate
    \/ ReadRaw


(***************************************************************************)
(* The error table on its own: PN532Error is raised with each status byte. *)
(***************************************************************************)
ErrorInit ==
    /\ session = "none"
    /\ pc = "idle"
    /\ op = Operation("none", NoArgs)
    /\ attempt = 0
    /\ cmd = Call(0, 0, <<>>, 0)
    /\ ops = <<>>
    /\ ack = NotRead
    /\ rx = NotRead
    /\ disp = Nil
    /\ boot = <<>>
    /\ outcome = Nil
    /\ cpc = "input"
    /\ payload = <<>>
    /\ frame = <<>>
    /\ edit = NoEdit
    /\ buf = <<>>
    /\ decoded = Nil
    /\ status \in Byte
    /\ classified = Nil

\* raise PN532Error(status)
RaiseError ==
    /\ classified = Nil
    /\ classified' = PN532Error(status)
    /\ UNCHANGED <<sessionVars, codecVars, status>>

ErrorNext == RaiseError

(***************************************************************************)
(* Properties of the codec, checked under CodecSpec.                       *)
(***************************************************************************)
ChecksumKinds == {MSG_LENCHECK, MSG_CHECKSUM}

\* C1: every payload with 1 < length < 255 is accepted by _write_frame, and
\* the frame it hands to the transport, read back by _read_frame with the
\* payload's length as the expected length, decodes to exactly the payload.
C1_RoundTrip ==
    /\ (LengthAccepted(payload) /\ cpc # "input") => cpc # "rejected"
    /\ (cpc = "decoded" /\ edit.kind = "none") =>
            /\ decoded.kind = "data"
            /\ decoded.val = payload

C1_Witness ==
    /\ cpc = "decoded"
    /\ edit.kind = "none"
    /\ payload = <<PN532TOHOST, 255, 1>>
    /\ decoded.val = payload

\* C2 as stated: replacing any single byte other than the two leading zero
\* bytes makes _read_frame fail with a checksum mismatch.
C2_Original ==
    (cpc = "decoded" /\ edit.kind = "replace" /\ edit.pos >= 2) =>
        /\ decoded.kind = "RuntimeError"
        /\ decoded.msg \in ChecksumKinds

\* C2 (amended): replacing the length byte, the length-checksum byte, a
\* payload byte or the payload-checksum byte makes _read_frame fail with a
\* checksum mismatch (of the length for the first two, of the payload for
\* the others); replacing the start marker makes it fail with the malformed
\* preamble failure; replacing the postamble is not detected and the payload
\* is returned.
C2_ChecksumRejection ==
    (cpc = "decoded" /\ edit.kind = "replace") =>
        /\ edit.pos \in {3, 4} =>
            decoded = Raised("RuntimeError", MSG_LENCHECK)
        /\ (edit.pos >= 5 /\ edit.pos <= Len(frame) - 2) =>
            decoded = Raised("RuntimeError", MSG_CHECKSUM)
        /\ edit.pos = 2 =>
            decoded = Raised("RuntimeError", MSG_PREAMBLE)
        /\ edit.pos = Len(frame) - 1 =>
            decoded = Returned("data", payload)

C2_Witness ==
    /\ cpc = "decoded"
    /\ edit.kind = "replace"
    /\ edit.pos = Len(frame) - 2
    /\ Len(payload) = 3
    /\ decoded.msg = MSG_CHECKSUM

(***************************************************************************)
(* Properties of the error table, checked under ErrorSpec.                 *)
(***************************************************************************)
\* C3: for every status byte 0..255, raising PN532Error with it ends in a
\* PN532Error carrying that byte (an enumerated code or an unrecognized
\* one), never in a failed lookup.
C3_ClassifyTotal ==
    classified # Nil =>
        /\ classified.kind = "PN532Error"
        /\ classified.err = status

(***************************************************************************)
(* Properties of the dispatcher and the commands, checked under Spec.      *)
(***************************************************************************)
Done(name) == pc = "done" /\ op.name = name

\* The dispatcher returned a result of at least n bytes.
Answered(n) == disp.kind = "result" /\ Len(disp.val) >= n

\* C4: every call_function ends in a result payload, in "no response"
\* (None), in a DeviceError or in a protocol-fatal failure (RuntimeError),
\* whatever the transport does.
C4_FourOutcomes ==
    disp # Nil => disp.kind \in {"result", "None", "PN532Error", "RuntimeError"}

\* C5: once the bytes read after the first readiness poll differ from the
\* ACK literal, the call has ended in the RuntimeError of the ACK, which is
\* not the None of "no response", the read of the 6 bytes is the last
\* transport operation, and no result frame was read; a result frame is
\* read only after the literal itself.
C5_AckExact ==
    /\ (ack # NotRead /\ ack # ACK) =>
            /\ disp = Raised("RuntimeError", MSG_ACK)
            /\ disp.kind # "None"
            /\ rx = NotRead
            /\ ops[Len(ops)] = Op("read", 6)
            /\ pc \in {"done", "write"}
            /\ pc = "done" => outcome = Raised("RuntimeError", MSG_ACK)
    /\ rx # NotRead => ack = ACK

C5_Witness ==
    /\ Done("call_function")
    /\ ack = <<0, 0, 255, 0, 255, 1>>
    /\ outcome = Raised("RuntimeError", MSG_ACK)

\* C6: in __init__, a first get_firmware_version that fails because
\* call_function returned None or raised a RuntimeError is swallowed and a
\* second one is made; after the second, the object exists exactly when
\* the second succeeded, and otherwise __init__ raised what the second
\* raised.
C6_Bootstrap ==
    op.name = "construct" =>
        /\ (Len(boot) = 1 /\ disp.kind \in {"None", "RuntimeError"}) =>
                /\ boot[1].kind = "RuntimeError"
                /\ attempt = 2
                /\ pc # "done"
                /\ session = "none"
                /\ outcome = Nil
        /\ Len(boot) = 2 =>
                /\ boot[1].kind = "RuntimeError"
                /\ pc = "done"
                /\ IF boot[2].kind = "tuple"
                   THEN session = "ready" /\ outcome.kind = "constructed"
                   ELSE session = "failed" /\ outcome = boot[2]

C6_Witness ==
    /\ Done("construct")
    /\ boot[1] = Raised("RuntimeError", MSG_DETECT)
    /\ Len(boot) = 2
    /\ boot[2].kind = "tuple"
    /\ session = "ready"

\* C7: in the three MIFARE operations a result whose first byte is zero
\* ends in success, and a first byte of 1..255 ends in a PN532Error made
\* from that byte; one frame was written.
C7_StatusConvention ==
    (pc = "done" /\ op.name \in {"authenticate", "read_block", "write_block"}
        /\ Answered(1)) =>
        /\ IF At(disp.val, 0) = 0
           THEN outcome.kind \in {"True", "block"}
           ELSE outcome = Out("PN532Error", <<>>, At(disp.val, 0), "")
        /\ Cardinality({i \in 1..Len(ops) : ops[i].t = "write"}) = 1

\* C8: whenever mifare_classic_read_block returns, it returns exactly 16
\* bytes: the bytes after the zero status byte.
C8_ReadSixteen ==
    (Done("read_block") /\ outcome.kind = "block") =>
        /\ Len(outcome.val) = 16
        /\ \A i \in 1..16 : outcome.val[i] = disp.val[i + 1]

\* C9: whenever a response arrives whose byte 0 is not 1,
\* read_passive_target raises the RuntimeError of the card count: it
\* returns neither a UID nor None.
C9_NotOneCard ==
    (Done("read_passive_target") /\ Answered(1) /\ At(disp.val, 0) # 1) =>
        outcome = Raised("RuntimeError", MSG_CARDS)

C9_Witness ==
    /\ Done("read_passive_target")
    /\ Answered(13)
    /\ At(disp.val, 0) = 2
    /\ outcome = Raised("RuntimeError", MSG_CARDS)

\* C10 as stated: every UID returned has 4 to 7 bytes, as many as response
\* byte 5 declares, and a declared length above 7 is fatal.
C10_Original ==
    Done("read_passive_target") =>
        /\ outcome.kind = "uid" =>
                /\ Len(outcome.val) \in 4..7
                /\ Len(outcome.val) = At(disp.val, 5)
        /\ (Answered(6) /\ At(disp.val, 5) > 7) => outcome.kind = "RuntimeError"

\* C10 (amended): every UID returned has 0 to 7 bytes: the response bytes
\* from index 6 on that the response holds, up to the number byte 5
\* declares, so as many as declared when the response holds that many and
\* fewer otherwise; a response declaring a UID length above 7 is fatal.
C10_UidShape ==
    Done("read_passive_target") =>
        /\ outcome.kind = "uid" =>
                /\ Len(outcome.val) <= 7
                /\ Len(outcome.val) = Min(At(disp.val, 5), Len(disp.val) - 6)
                /\ \A i \in 1..Len(outcome.val) : outcome.val[i] = disp.val[6 + i]
        /\ (Answered(6) /\ At(disp.val, 5) > 7) => outcome.kind = "RuntimeError"

C10_Witness ==
    /\ Done("read_passive_target")
    /\ outcome.kind = "uid"
    /\ At(disp.val, 5) = 4
    /\ outcome.val = <<229, 1, 84, 35>>

\* C11: a data buffer of any length but 16 makes mifare_classic_write_block
\* fail its assert (AssertionError, the invalid-argument failure) before any
\* transport operation: nothing is written, polled, read or woken.
C11_WriteBlockArgument ==
    (op.name = "write_block" /\ Len(op.args.data) # 16) =>
        /\ pc = "done"
        /\ outcome = Raised("AssertionError", "Data must be an array of 16 bytes!")
        /\ ops = <<>>
        /\ ack = NotRead
        /\ rx = NotRead
        /\ disp = Nil

\* A write of 17 bytes was asked for and rejected.
C11_Witness ==
    /\ Done("write_block")
    /\ Len(op.args.data) = 17
    /\ outcome.kind = "AssertionError"

\* The first non-zero byte of a buffer is not 0xFF, or there is none.
NoStartMarker(response) ==
    LET z == SkipZeros(response, 0)
    IN z >= Len(response) \/ At(response, z) # STARTCODE2

\* C12: a frame decodes to its payload behind any number n >= 1 of leading
\* zero bytes, and a buffer without 0xFF, or with another non-zero byte
\* before the first 0xFF, fails with the malformed-preamble failure.
C12_PreambleScan ==
    /\ (cpc = "decoded" /\ edit.kind \in {"raw", "truncate"} /\ NoStartMarker(buf)) =>
            decoded = Raised("RuntimeError", MSG_PREAMBLE)
    /\ (cpc = "decoded" /\ edit.kind = "pad") =>
            decoded = Returned("data", payload)

\* The transport operations of the call_function in progress, or of the
\* last one made.
CallOps == SubSeq(ops, cmd.base + 1, Len(ops))

\* The five transport operations of a complete call_function, in order.
Handshake ==
    <<Op("write", Len(FrameOf(CallData(cmd.command, cmd.params)))),
      Op("wait_ready", cmd.timeout),
      Op("read", Len(ACK)),
      Op("wait_ready", cmd.timeout),
      Op("read", cmd.response_length + 2 + 7)>>

\* The i-th operation of the call is of type t.
CallOpIs(i, t) == i \in 1..Len(CallOps) /\ CallOps[i].t = t

\* C13: the transport operations of one call_function are a prefix of
\* write, poll, read 6, poll, read response, in that order, or the failed
\* write and its wake; one frame is written at most, the response is read
\* only after the ACK literal was read, and a result is returned only after
\* all five operations.  (At pc = "write" the second call of __init__ has
\* not begun and ack and rx still hold what the first call read.)
C13_HandshakeOrder ==
    op.name # "none" =>
        /\ \/ \E k \in 0..5 : CallOps = SubSeq(Handshake, 1, k)
           \/ /\ Len(CallOps) = 2
              /\ CallOps[1].t = "write_error"
              /\ CallOps[2].t = "wake"
        /\ rx # NotRead => ack = ACK
        /\ (pc = "read_result" \/ (pc # "write" /\ rx # NotRead)) =>
                (Len(CallOps) >= 4 /\ ack = ACK)
        /\ disp.kind = "result" => CallOps = Handshake

\* A block read that went through the five operations and has a result.
C13_Witness ==
    /\ Done("read_block")
    /\ disp.kind = "result"
    /\ Len(CallOps) = 5
    /\ ack = ACK

\* C14: a call that ends on a poll that was not ready returns None: after
\* the first poll nothing was read, after the second the ACK was read and
\* no response; a call polls at most twice, each time with the timeout the
\* caller gave, and a timeout is never a RuntimeError.
C14_PhaseTimeouts ==
    op.name # "none" =>
        /\ \A i \in 1..Len(CallOps) :
                CallOps[i].t = "wait_ready" => (i \in {2, 4} /\ CallOps[i].n = cmd.timeout)
        /\ (pc = "done" /\ CallOpIs(Len(CallOps), "wait_ready")) =>
                /\ disp = Returned("None", <<>>)
                /\ rx = NotRead
                /\ IF Len(CallOps) = 2 THEN ack = NotRead ELSE ack = ACK
                /\ \A i \in 1..Len(CallOps) : CallOps[i].t = "read" => (i = 3 /\ CallOps[i].n = Len(ACK))
                /\ op.name = "call_function" => outcome = Returned("None", <<>>)

\* The firmware version was asked for with its own timeout, the ACK came
\* and the second poll timed out.
C14_Witness ==
    /\ Done("get_firmware_version")
    /\ Len(CallOps) = 4
    /\ CallOps[4] = Op("wait_ready", TIMEOUT_FIRMWARE)
    /\ ack = ACK
    /\ disp.kind = "None"

\* C15: a write that fails with OSError is followed by one wake and the
\* call returns None without a poll, a read or a second write; a call whose
\* write did not fail makes no wake.
C15_WriteRecovery ==
    op.name # "none" =>
        /\ (pc = "done" /\ \E i \in 1..Len(CallOps) : CallOps[i].t = "write_error") =>
                /\ CallOps = <<Op("write_error", Len(FrameOf(CallData(cmd.command, cmd.params)))),
                               Op("wake", 0)>>
                /\ disp = Returned("None", <<>>)
                /\ ack = NotRead
                /\ rx = NotRead
                /\ op.name = "call_function" => outcome = Returned("None", <<>>)
        /\ (\E i \in 1..Len(CallOps) : CallOps[i].t = "wake") => CallOpIs(1, "write_error")
        /\ (pc # "write" /\ CallOps # <<>>) => CallOps[1].t \in {"write", "write_error"}

\* A block write whose frame could not be written.
C15_Witness ==
    /\ Done("write_block")
    /\ Len(CallOps) = 2
    /\ CallOps[1].t = "write_error"
    /\ CallOps[2] = Op("wake", 0)
    /\ disp.kind = "None"

\* The transport operations __init__ makes before its first
\* get_firmware_version, for the reset argument of the construction.
BootPrefix ==
    IF op.args.reset # 0 THEN <<Op("reset", op.args.reset), Op("wake", 0)>>
    ELSE <<Op("wake", 0)>>

\* C16 as stated: every finished construction made two calls of
\* get_firmware_version, after the reset (if any) and the wake.
C16_Original ==
    Done("construct") =>
        /\ SubSeq(ops, 1, Len(BootPrefix)) = BootPrefix
        /\ Len(boot) = 2

\* C16: __init__ resets only when a reset pin is given, wakes once, and
\* calls get_firmware_version once when that call succeeds or fails with
\* something other than a RuntimeError, and a second time exactly when the
\* first call failed with a RuntimeError; the second call's failure is
\* raised.
C16_BootSequence ==
    op.name = "construct" =>
        /\ SubSeq(ops, 1, Len(BootPrefix)) = BootPrefix
        /\ \A i \in 1..Len(ops) : ops[i].t = "reset" => (i = 1 /\ op.args.reset # 0)
        /\ Len(boot) <= 2
        /\ pc = "done" =>
                /\ Len(boot) >= 1
                /\ Len(boot) = 2 <=> boot[1].kind = "RuntimeError"
                /\ IF boot[Len(boot)].kind = "tuple"
                   THEN session = "ready" /\ outcome = Returned("constructed", <<>>)
                   ELSE session = "failed" /\ outcome = boot[Len(boot)]
        /\ (pc # "done" /\ attempt = 1) => boot = <<>>
        /\ (pc # "done" /\ attempt = 2) => (Len(boot) = 1 /\ boot[1].kind = "RuntimeError")

\* A construction without a reset pin whose first get_firmware_version
\* succeeded: one call was made.
C16_Witness ==
    /\ Done("construct")
    /\ op.args.reset = 0
    /\ ops[1] = Op("wake", 0)
    /\ Len(boot) = 1
    /\ boot[1].kind = "tuple"
    /\ session = "ready"

\* What _read_frame made of the bytes read for the response.
Decoded == ParseFrame(rx)

\* C17: a decoded response is answered with the bytes after its two header
\* bytes exactly when byte 0 is 0xD5 and byte 1 is command+1, and every
\* other decoded response ends the call in RuntimeError('Received
\* unexpected command response!').
C17_Correlation ==
    (pc = "done" /\ rx # NotRead /\ Decoded.kind = "data") =>
        IF /\ Len(Decoded.val) >= 2
           /\ Decoded.val[1] = PN532TOHOST
           /\ Decoded.val[2] = cmd.command + 1
        THEN disp = Returned("result", SubSeq(Decoded.val, 3, Len(Decoded.val)))
        ELSE disp = Raised("RuntimeError", MSG_COMMAND)

\* The operations that exchange data with a card.
CardOperations == {"authenticate", "read_block", "write_block"}

\* C18: when call_function returned None, the three card operations and
\* read_passive_target end in None as well, and every call of the four ends
\* in a success value, in None, or in a PN532Error, a RuntimeError or an
\* AssertionError.
C18_NoResponse ==
    (pc = "done" /\ op.name \in CardOperations \cup {"read_passive_target"}) =>
        /\ disp = Returned("None", <<>>) => outcome = Returned("None", <<>>)
        /\ outcome.kind \in {"True", "block", "uid", "None",
                              "PN532Error", "RuntimeError", "AssertionError"}

\* C19: a result call_function returns has at most response_length bytes,
\* and the frame it was taken from at most response_length + 2.
C19_ResultBound ==
    (pc = "done" /\ disp.kind = "result") =>
        /\ Len(disp.val) <= cmd.response_length
        /\ Len(Decoded.val) <= cmd.response_length + 2

\* The offset of the length byte in a buffer: one past the first non-zero
\* byte.
LengthOffset(response) == SkipZeros(response, 0) + 1

\* C20: when _read_frame returns data, the data has as many bytes as the
\* length byte declares, the checksum byte after them is in the buffer, and
\* data and checksum byte sum to 0 modulo 256; a buffer cut short inside
\* the data or before the checksum byte is not decoded.
C20_DeclaredLength ==
    (cpc = "decoded" /\ decoded.kind = "data") =>
        LET offset == LengthOffset(buf)
            frame_len == At(buf, offset)
        IN /\ Len(decoded.val) = frame_len
           /\ Len(buf) >= offset + 2 + frame_len + 1
           /\ And255(Sum(decoded.val) + At(buf, offset + 2 + frame_len)) = 0

(***************************************************************************)
(* Specifications.                                                         *)
(***************************************************************************)
Spec == Init /\ [][Next]_vars

CodecSpec == CodecInit /\ [][CodecNext]_vars

ErrorSpec == ErrorInit /\ [][ErrorNext]_vars


====
